---- MODULE Spec2Model ----
(***************************************************************************)
(* Model of the schedule generation engine of dram-planner:                *)
(* schedule_generator.generate_schedule and the helpers it calls           *)
(* (adjust_to_preferred_day, is_avoid_date) together with the preference   *)
(* accessors of config.py.                                                 *)
(*                                                                         *)
(* A datetime is modelled by its day ordinal counted from 2024-01-01 (a    *)
(* Monday), so that weekday() is the ordinal modulo 7; all timedeltas of   *)
(* the code are whole days.  A formatted date ('%Y-%m-%d') is the triple   *)
(* <<year, month, day>>.  Calls of the random module are nondeterministic  *)
(* choices over every outcome the call can produce.                        *)
(***************************************************************************)
EXTENDS Integers, Sequences, FiniteSets, TLC

\* ---------------------------------------------------------------- bounds
MaxBottles == 3
MaxWeeks == 3
MaxDateBottles == 2
MaxDateWeeks == 2
MaxLiveBottles == 2
MaxLiveWeeks == 3
MaxSnapDate == 13

\* ------------------------------------------------------ program constants
\* max_attempts of the blackout loop, the untasted priority boost (2.0) and
\* the weight of a category without a configured weight (1.0)
max_attempts == 30
UntastedBoost == 2
DefaultWeight == 1

\* ------------------------------------------------------------- utilities
Min(a, b) == IF a <= b THEN a ELSE b
Max(a, b) == IF a >= b THEN a ELSE b
Abs(a) == IF a >= 0 THEN a ELSE 0 - a

\* int(a / b) of Python for integers a, b with b # 0: the quotient truncated
\* toward zero.
TruncDiv(a, b) ==
    IF (a >= 0) = (b > 0) THEN Abs(a) \div Abs(b) ELSE 0 - (Abs(a) \div Abs(b))

\* s[:n] of Python, also for a negative n.
PyPrefix(s, n) ==
    IF n >= 0 THEN SubSeq(s, 1, Min(n, Len(s)))
    ELSE SubSeq(s, 1, Max(0, Len(s) + n))

InsertAt(s, i, x) == SubSeq(s, 1, i - 1) \o <<x>> \o SubSeq(s, i, Len(s))

\* Every order in which random.shuffle can leave the list s.
RECURSIVE Shuffles(_)
Shuffles(s) ==
    IF s = <<>> THEN {<<>>}
    ELSE UNION {{InsertAt(t, i, Head(s)) : i \in 1..(Len(t) + 1)} :
                   t \in Shuffles(Tail(s))}

\* ------------------------------------------------------------- calendar
IsLeap(y) == (y % 4 = 0 /\ y % 100 # 0) \/ y % 400 = 0

DaysInMonth(y, m) ==
    IF m = 2 THEN (IF IsLeap(y) THEN 29 ELSE 28)
    ELSE IF m \in {4, 6, 9, 11} THEN 30 ELSE 31

RECURSIVE FromOrdinal(_, _, _)
FromOrdinal(n, y, m) ==
    IF n >= DaysInMonth(y, m)
    THEN IF m = 12 THEN FromOrdinal(n - DaysInMonth(y, m), y + 1, 1)
                   ELSE FromOrdinal(n - DaysInMonth(y, m), y, m + 1)
    ELSE <<y, m, n + 1>>

\* date.strftime('%Y-%m-%d')
Strftime(date) == FromOrdinal(date, 2024, 1)

RECURSIVE DaysBefore(_, _)
DaysBefore(y, m) ==
    IF y = 2024 /\ m = 1 THEN 0
    ELSE IF m = 1 THEN DaysBefore(y - 1, 12) + 31
    ELSE DaysBefore(y, m - 1) + DaysInMonth(y, m - 1)

\* datetime.fromisoformat of a formatted date, as a day ordinal
FromIsoFormat(t) == DaysBefore(t[1], t[2]) + t[3] - 1

\* date.weekday(): Monday = 0 ... Sunday = 6
Weekday(date) == date % 7

\* String order of two '%Y-%m-%d' dates: s <= t
DateLeq(s, t) ==
    \/ s[1] < t[1]
    \/ s[1] = t[1] /\ s[2] < t[2]
    \/ s[1] = t[1] /\ s[2] = t[2] /\ s[3] <= t[3]

\* --------------------------------------------------------------- strings
\* str.lower() on the category and weekday names the model uses
Lower(s) ==
    CASE s = "Rum" -> "rum"
      [] s = "Friday" -> "friday"
      [] s = "Monday" -> "monday"
      [] s = "SUNDAY" -> "sunday"
      [] s = "Saturday" -> "saturday"
      [] s = "WEDNESDAY" -> "wednesday"
      [] OTHER -> s

\* day_map.get(name, -1)
day_map(name) ==
    CASE name = "monday" -> 0
      [] name = "tuesday" -> 1
      [] name = "wednesday" -> 2
      [] name = "thursday" -> 3
      [] name = "friday" -> 4
      [] name = "saturday" -> 5
      [] name = "sunday" -> 6
      [] OTHER -> -1

\* ------------------------------------------------------------- config.py
\* A dict is a function on its keys; {} is the function of empty domain
EmptyMap == [c \in {} |-> 0]

\* d.get(key, default)
DictGet(d, key, default) == IF key \in DOMAIN d THEN d[key] ELSE default

\* d.update(other), as the value d has afterwards
DictUpdate(d, other) ==
    [k \in DOMAIN d \cup DOMAIN other |-> IF k \in DOMAIN other THEN other[k] ELSE d[k]]

\* config.get('user_preferences', {})
UserPreferences(config) == DictGet(config, "user_preferences", EmptyMap)

\* get_tasting_frequency_days with the custom interval used for every cadence
\* that sets one
FrequencyDaysCustomFirst(config) ==
    LET frequency == DictGet(UserPreferences(config), "tasting_frequency", "weekly")
    IN  IF "custom_interval_days" \in DOMAIN UserPreferences(config)
        THEN UserPreferences(config).custom_interval_days
        ELSE CASE frequency = "weekly" -> 7
               [] frequency = "bi-weekly" -> 14
               [] frequency = "monthly" -> 30
               [] OTHER -> 7

get_tasting_frequency_days(config) ==
    LET frequency == DictGet(UserPreferences(config), "tasting_frequency", "weekly")
    IN  CASE frequency = "weekly" -> 7
          [] frequency = "bi-weekly" -> 14
          [] frequency = "monthly" -> 30
          [] frequency = "custom" ->
                 DictGet(UserPreferences(config), "custom_interval_days", 7)
          [] OTHER -> 7

get_preferred_days(config) == DictGet(UserPreferences(config), "preferred_days", <<>>)
get_avoid_dates(config) == DictGet(UserPreferences(config), "avoid_dates", {})
get_category_preferences(config) ==
    DictGet(UserPreferences(config), "category_preferences", EmptyMap)
get_min_days_between_category(config) ==
    DictGet(UserPreferences(config), "min_days_between_category", 0)
get_seasonal_adjustments(config) ==
    DictGet(UserPreferences(config), "seasonal_adjustments", FALSE)

\* ------------------------------------------------- schedule_generator.py
\* NearestDiff with the operands of the weekday difference exchanged
RECURSIVE NearestDiffSwapped(_, _, _, _)
NearestDiffSwapped(preferred_weekdays, i, current_weekday, min_diff) ==
    IF i > Len(preferred_weekdays) THEN min_diff
    ELSE LET diff == (current_weekday - preferred_weekdays[i]) % 7
         IN  IF diff = 0 THEN 0
             ELSE NearestDiffSwapped(preferred_weekdays, i + 1, current_weekday,
                                     IF diff < min_diff THEN diff ELSE min_diff)

\* NearestDiff keeping the difference of the last preferred weekday, not the
\* smallest
RECURSIVE NearestDiffLast(_, _, _, _)
NearestDiffLast(preferred_weekdays, i, current_weekday, min_diff) ==
    IF i > Len(preferred_weekdays) THEN min_diff
    ELSE LET diff == (preferred_weekdays[i] - current_weekday) % 7
         IN  IF diff = 0 THEN 0
             ELSE NearestDiffLast(preferred_weekdays, i + 1, current_weekday, diff)

\* The loop of adjust_to_preferred_day over preferred_weekdays from position
\* i on: the days to add (0 on the early return of a same-day match).
RECURSIVE NearestDiff(_, _, _, _)
NearestDiff(preferred_weekdays, i, current_weekday, min_diff) ==
    IF i > Len(preferred_weekdays) THEN min_diff
    ELSE LET diff == (preferred_weekdays[i] - current_weekday) % 7
         IN  IF diff = 0 THEN 0
             ELSE NearestDiff(preferred_weekdays, i + 1, current_weekday,
                              IF diff < min_diff THEN diff ELSE min_diff)

IsValidDay(d) == d >= 0

adjust_to_preferred_day(date, preferred_days) ==
    IF preferred_days = <<>> THEN date
    ELSE LET mapped == [i \in 1..Len(preferred_days) |->
                            day_map(Lower(preferred_days[i]))]
             preferred_weekdays == SelectSeq(mapped, IsValidDay)
         IN  IF preferred_weekdays = <<>> THEN date
             ELSE date + NearestDiff(preferred_weekdays, 1, Weekday(date), 7)

\* any(name in category_lower for name in light_categories), and the same for
\* heavy_categories: a substring test, which for the category names of the
\* model is the membership of the whole name
IsLight(category_lower) ==
    category_lower \in {"gin", "vodka", "rum", "tequila", "clear spirits"}
IsHeavy(category_lower) ==
    category_lower \in {"bourbon", "scotch", "whiskey", "whisky", "rye"}

\* get_seasonal_weight, in tenths: 15 for 1.5, 7 for 0.7, 10 for 1.0
get_seasonal_weight(category, date, seasonal_enabled) ==
    LET month == Strftime(date)[2]
        category_lower == Lower(category)
    IN  IF ~seasonal_enabled THEN 10
        ELSE IF month \in {6, 7, 8}
        THEN (IF IsLight(category_lower) THEN 15
              ELSE IF IsHeavy(category_lower) THEN 7 ELSE 10)
        ELSE IF month \in {12, 1, 2}
        THEN (IF IsHeavy(category_lower) THEN 15
              ELSE IF IsLight(category_lower) THEN 7 ELSE 10)
        ELSE 10

is_avoid_date(date, avoid_dates) ==
    IF avoid_dates = {} THEN FALSE
    ELSE Strftime(date) \in avoid_dates

\* CategoryKey without the lower-casing
CategoryKeyRaw(bottle) == bottle.category

\* bottle.get('category', 'other').lower(): the key of last_category_date
\* and of category_preferences
CategoryKey(bottle) == Lower(bottle.category)

\* Weight without the boost of line 259-260
WeightNoBoost(bottle, category_prefs) ==
    IF CategoryKey(bottle) \in DOMAIN category_prefs
    THEN category_prefs[CategoryKey(bottle)]
    ELSE DefaultWeight

\* category_prefs.get(category, 1.0), doubled for an untasted bottle
Weight(bottle, category_prefs) ==
    LET base == IF CategoryKey(bottle) \in DOMAIN category_prefs
                THEN category_prefs[CategoryKey(bottle)]
                ELSE DefaultWeight
    IN  IF ~bottle.tasted THEN base * UntastedBoost ELSE base

IsTasted(b) == b.tasted
IsUntasted(b) == ~b.tasted
PairTasted(p) == p[1].tasted
PairUntasted(p) == ~p[1].tasted

\* all_bottles after the loop over untasted + tasted: pairs <<bottle, weight>>
WeightedPool(bottles, category_prefs) ==
    LET ordered == SelectSeq(bottles, IsUntasted) \o SelectSeq(bottles, IsTasted)
    IN  [i \in 1..Len(ordered) |-> <<ordered[i], Weight(ordered[i], category_prefs)>>]

\* total_tastings = int(weeks * 7 / frequency_days), frequency_days # 0
TotalTastings(w, frequency_days) == TruncDiv(w * 7, frequency_days)

\* The repeat pool before it is shuffled: the tasted pairs, or a copy of the
\* whole pool when no bottle is tasted
RepeatPool(pool) ==
    LET tasted_pairs == SelectSeq(pool, PairTasted)
    IN  IF tasted_pairs = <<>> THEN pool ELSE tasted_pairs

\* all_bottles.extend(repeat_pool[:needed_repeats]) on the shuffled repeat pool
RepeatFill(pool, shuffled, needed_repeats) ==
    pool \o PyPrefix(shuffled, needed_repeats)

\* Truncate with the tasted list sliced to total_tastings, not to what the
\* untasted bottles leave
TruncateNoRemainder(pool, tastings) ==
    LET untasted_weighted == SelectSeq(pool, PairUntasted)
        tasted_weighted == SelectSeq(pool, PairTasted)
    IN  IF Len(untasted_weighted) >= tastings
        THEN PyPrefix(untasted_weighted, tastings)
        ELSE untasted_weighted \o PyPrefix(tasted_weighted, tastings)

\* Truncate with line 280 slicing tasted_weighted
TruncateTastedPrefix(pool, tastings) ==
    LET untasted_weighted == SelectSeq(pool, PairUntasted)
        tasted_weighted == SelectSeq(pool, PairTasted)
    IN  IF Len(untasted_weighted) >= tastings
        THEN PyPrefix(tasted_weighted, tastings)
        ELSE untasted_weighted
               \o PyPrefix(tasted_weighted, tastings - Len(untasted_weighted))

\* The branch for more bottles than tastings
Truncate(pool, tastings) ==
    LET untasted_weighted == SelectSeq(pool, PairUntasted)
        tasted_weighted == SelectSeq(pool, PairTasted)
    IN  IF Len(untasted_weighted) >= tastings
        THEN PyPrefix(untasted_weighted, tastings)
        ELSE untasted_weighted
               \o PyPrefix(tasted_weighted, tastings - Len(untasted_weighted))

\* k of random.choices
ChoicesK(tastings, pool) == Min(tastings, Len(pool))

RECURSIVE SumWeights(_)
SumWeights(pool) ==
    IF pool = <<>> THEN 0 ELSE pool[1][2] + SumWeights(Tail(pool))

\* The positions random.choices can return: those of positive weight
Drawable(pool) == {i \in 1..Len(pool) : pool[i][2] > 0}

\* Every list random.choices(population, weights, k) can return
ChoicesOutcomes(pool, k) ==
    LET kk == Max(k, 0)
    IN  {[j \in 1..kk |-> pool[picks[j]][1]] : picks \in [1..kk -> Drawable(pool)]}

\* Lines 293-294 without the sort: the shuffle alone
SortOutcomesShuffleOnly(s) == Shuffles(s)

\* selected_bottles.sort(key=(tasted, random.random())): the untasted bottles
\* before the tasted ones, each group in an order the random keys decide
SortOutcomes(s) ==
    {u \o t : u \in Shuffles(SelectSeq(s, IsUntasted)),
              t \in Shuffles(SelectSeq(s, IsTasted))}

\* Lines 309-313: the date after category spacing
SpacedDate(date, category, last, min_days) ==
    IF min_days > 0 /\ category \in DOMAIN last
    THEN IF date - last[category] < min_days
         THEN last[category] + min_days
         ELSE date
    ELSE date

\* Lines 316-317
SnappedDate(date, preferred_days) ==
    IF preferred_days # <<>> THEN adjust_to_preferred_day(date, preferred_days)
    ELSE date

\* AvoidLoop with the bound tested by <= instead of <
RECURSIVE AvoidLoopOneMore(_, _, _, _)
AvoidLoopOneMore(date, attempts, preferred_days, avoid_dates) ==
    IF is_avoid_date(date, avoid_dates) /\ attempts <= max_attempts
    THEN AvoidLoopOneMore(SnappedDate(date + 1, preferred_days), attempts + 1,
                          preferred_days, avoid_dates)
    ELSE <<date, attempts>>

\* AvoidLoop without the snapping of lines 324-325
RECURSIVE AvoidLoopNoSnap(_, _, _, _)
AvoidLoopNoSnap(date, attempts, preferred_days, avoid_dates) ==
    IF is_avoid_date(date, avoid_dates) /\ attempts < max_attempts
    THEN AvoidLoopNoSnap(date + 1, attempts + 1, preferred_days, avoid_dates)
    ELSE <<date, attempts>>

\* AvoidLoop without the ceiling of max_attempts
RECURSIVE AvoidLoopNoCeiling(_, _, _, _)
AvoidLoopNoCeiling(date, attempts, preferred_days, avoid_dates) ==
    IF is_avoid_date(date, avoid_dates)
    THEN CHOOSE out \in {AvoidLoopNoCeiling(next, attempts + 1, preferred_days, avoid_dates) :
                             next \in {SnappedDate(date + 1, preferred_days)}} : TRUE
    ELSE <<date, attempts>>

\* Lines 320-326: the blackout loop, from (date, attempts) to the pair at exit.
\* next is the value of date after lines 323-325 of one iteration.
RECURSIVE AvoidLoop(_, _, _, _)
AvoidLoop(date, attempts, preferred_days, avoid_dates) ==
    IF is_avoid_date(date, avoid_dates) /\ attempts < max_attempts
    THEN CHOOSE out \in {AvoidLoop(next, attempts + 1, preferred_days, avoid_dates) :
                             next \in {SnappedDate(date + 1, preferred_days)}} : TRUE
    ELSE <<date, attempts>>

\* week_num left as it is
NextWeekNumStuck(w) == w

\* week_num += 1
NextWeekNum(w) == w + 1

\* Line 342 left out
AdvanceDateNone(date, frequency_days) == date

\* Line 342 stepping a week whatever the cadence
AdvanceDateWeekly(date, frequency_days) == date + 7

\* current_date += timedelta(days=frequency_days)
AdvanceDate(date, frequency_days) == date + frequency_days

\* ScheduleRecord with the date formatted day first ('%Y-%d-%m')
ScheduleRecordDayFirst(w, date, bottle) ==
    [week |-> w, date |-> <<Strftime(date)[1], Strftime(date)[3], Strftime(date)[2]>>,
     bottle_id |-> bottle.id, category |-> bottle.category,
     is_repeat |-> bottle.tasted]

\* Lines 331-339 with is_repeat set for the bottles not yet tasted
ScheduleRecordRepeatInverted(w, date, bottle) ==
    [week |-> w, date |-> Strftime(date), bottle_id |-> bottle.id,
     category |-> bottle.category, is_repeat |-> ~bottle.tasted]

\* Lines 331-339: the entry appended to the schedule
ScheduleRecord(w, date, bottle) ==
    [week |-> w, date |-> Strftime(date), bottle_id |-> bottle.id,
     category |-> bottle.category, is_repeat |-> bottle.tasted]

SetLast(last, category, date) ==
    [c \in DOMAIN last \cup {category} |-> IF c = category THEN date ELSE last[c]]

\* ---------------------------------------------------------------- inputs
\* Inventories of at most maxn bottles with ids 1..n in list order
BottleLists(maxn, cats, flags) ==
    UNION {{[i \in 1..n |-> [id |-> i, category |-> f[i][1], tasted |-> f[i][2]]] :
               f \in [1..n -> cats \X flags]} : n \in 0..maxn}

\* A collection argument: None, a dict without 'bottles', or a dict with it
NoneCollection == [is_none |-> TRUE, has_bottles |-> FALSE, bottles |-> <<>>]
NoBottlesKey == [is_none |-> FALSE, has_bottles |-> FALSE, bottles |-> <<>>]
Collection(bs) == [is_none |-> FALSE, has_bottles |-> TRUE, bottles |-> bs]

\* DEFAULT_CONFIG["user_preferences"]
DefaultPreferences ==
    [tasting_frequency |-> "weekly", custom_interval_days |-> 7,
     preferred_days |-> <<>>, avoid_dates |-> {},
     category_preferences |-> EmptyMap, seasonal_adjustments |-> FALSE,
     min_days_between_category |-> 0, default_schedule_weeks |-> 104]

\* DEFAULT_CONFIG as the module defines it
DEFAULT_CONFIG ==
    [user_preferences |-> DefaultPreferences,
     import_sources |->
         [open_food_facts |->
              [enabled |-> FALSE,
               api_url |-> "https://world.openfoodfacts.org/api/v0/product/{}.json"]],
     data_files |-> [collection_file |-> "collection.json",
                     schedule_file |-> "tasting_schedule.json"]]

\* A config_data argument: None, or a dict with the given user_preferences
NoneConfig == [is_none |-> TRUE]
IsNone(config) == "is_none" \in DOMAIN config
ConfigOf(prefs) == [user_preferences |-> prefs]

\* config.json: absent, unreadable as JSON, or holding a dict
FileMissing == [status |-> "missing"]
FileInvalid == [status |-> "invalid"]
FileWith(content) == [status |-> "ok", content |-> content]

\* load_config, lines 55-63, with the defaults overriding the file
MergedConfigDefaultsWin(defaults, content) == DictUpdate(content, defaults)

\* load_config, lines 55-63: merged = DEFAULT_CONFIG.copy(); merged.update(config);
\* then, for each of the three sections the file has,
\* merged[section].update(config[section]), where merged[section] is by then
\* the file's own section
MergedConfig(defaults, content) ==
    LET merged == DictUpdate(defaults, content)
    IN  [s \in DOMAIN merged |->
            IF s \in {"user_preferences", "import_sources", "data_files"}
               /\ s \in DOMAIN content
            THEN DictUpdate(merged[s], content[s])
            ELSE merged[s]]

\* The value load_config returns
LoadConfigValue(defaults, file) ==
    IF file.status = "ok" THEN MergedConfig(defaults, file.content) ELSE defaults

\* The sections of the returned dict that are the very dicts of DEFAULT_CONFIG
\* (DEFAULT_CONFIG.copy() is shallow)
SharedSections(defaults, file) ==
    IF file.status = "ok" THEN DOMAIN defaults \ DOMAIN file.content
    ELSE DOMAIN defaults

\* load_config that never writes the file
FileAfterLoadNoCreate(defaults, file) == file

\* config.json after load_config: a missing file is created with the defaults
FileAfterLoad(defaults, file) ==
    IF file.status = "missing" THEN FileWith(defaults) ELSE file

\* The result of load_config as an object: its sections at load time and
\* which of them alias DEFAULT_CONFIG
NotLoaded == [loaded |-> FALSE]
Loaded(defaults, file) ==
    [loaded |-> TRUE, sections |-> LoadConfigValue(defaults, file),
     shared |-> SharedSections(defaults, file)]

\* The value a loaded config has now
LoadedValue(config, defaults) ==
    [s \in DOMAIN config.sections |->
        IF s \in config.shared THEN defaults[s] ELSE config.sections[s]]

\* File contents and configurations for the preference resolver
PartialBiWeekly == [user_preferences |-> [tasting_frequency |-> "bi-weekly"]]

ConfigContents ==
    {EmptyMap, PartialBiWeekly, DEFAULT_CONFIG,
     [data_files |-> [collection_file |-> "my.json"]],
     [DEFAULT_CONFIG EXCEPT !.user_preferences = [tasting_frequency |-> "monthly"]]}
    \cup {ConfigOf([tasting_frequency |-> "custom", custom_interval_days |-> n]) :
             n \in {-3, 0, 10}}
    \cup {ConfigOf([tasting_frequency |-> f, custom_interval_days |-> 3]) :
             f \in {"weekly", "bi-weekly", "monthly", "daily"}}
    \cup {ConfigOf([tasting_frequency |-> "custom"]),
          ConfigOf([custom_interval_days |-> 3])}

ConfigFiles == {FileMissing, FileInvalid} \cup {FileWith(c) : c \in ConfigContents}

\* Configurations that vary the cadence and the category weights
SelectionConfigs ==
    {[DefaultPreferences EXCEPT !.tasting_frequency = f] :
        f \in {"weekly", "bi-weekly", "monthly"}}
    \cup {[DefaultPreferences EXCEPT !.tasting_frequency = "custom",
                                     !.custom_interval_days = n] :
        n \in {0, -7}}
    \cup {[DefaultPreferences EXCEPT !.category_preferences = m] :
        m \in {("rum" :> 0), ("rum" :> 0) @@ ("gin" :> 0), ("gin" :> 3)}}
    \cup {[DefaultPreferences EXCEPT !.seasonal_adjustments = TRUE]}

DayRun(first, step, count) == {Strftime(first + step * i) : i \in 0..(count - 1)}

AvoidOptions ==
    {{}, {Strftime(d) : d \in {5, 7, 8}}, DayRun(0, 1, 30), DayRun(0, 1, 40),
     DayRun(4, 7, 35)}

PreferredOptions ==
    {<<>>, <<"Friday">>, <<"saturday", "Monday">>, <<"Funday", "SUNDAY">>}

\* Configurations that vary what the date scheduler reads
DateConfigs ==
    {[DefaultPreferences EXCEPT !.tasting_frequency = "custom",
                                !.custom_interval_days = n,
                                !.min_days_between_category = d,
                                !.preferred_days = p,
                                !.avoid_dates = a] :
        n \in {6, 7}, d \in {0, 10}, p \in PreferredOptions, a \in AvoidOptions}

\* ----------------------------------------------------------------- state
VARIABLES
    collection,          \* argument: the inventory
    start_date,          \* argument: a datetime (day ordinal)
    weeks,               \* argument
    config_data,         \* argument: the configuration, or None
    pc,                  \* position in generate_schedule
    raised,              \* the exception that left generate_schedule, or "none"
    total_tastings,
    all_bottles,         \* list of <<bottle, weight>>
    selected_bottles,
    current_date,
    last_category_date,
    week_num,
    schedule,
    attempts_log,        \* the value of attempts at the exit of the blackout
                         \* loop, for each entry in order
    config_file,         \* config.json
    default_config,      \* the module-level DEFAULT_CONFIG
    loaded_config,       \* the dict the last load_config returned
    resolved,            \* <<config, days>> of the last cadence resolution
    seasonal_weight,     \* local of the date loop, in tenths
    snap                 \* a call of adjust_to_preferred_day: its arguments
                         \* and, once it has returned, its result

vars == <<collection, start_date, weeks, config_data, pc, raised, total_tastings,
          all_bottles, selected_bottles, current_date, last_category_date,
          week_num, schedule, attempts_log, config_file, default_config,
          loaded_config, resolved, seasonal_weight, snap>>

inputs == <<start_date, weeks>>

config_vars == <<config_file, default_config, loaded_config, resolved>>

schedule_vars == <<collection, start_date, weeks, config_data, pc, raised,
                   total_tastings, all_bottles, selected_bottles, current_date,
                   last_category_date, week_num, schedule, attempts_log,
                   seasonal_weight>>

Locals0 ==
    /\ pc = "call"
    /\ raised = "none"
    /\ total_tastings = 0
    /\ all_bottles = <<>>
    /\ selected_bottles = <<>>
    /\ current_date = 0
    /\ last_category_date = EmptyMap
    /\ week_num = 0
    /\ schedule = <<>>
    /\ attempts_log = <<>>
    /\ seasonal_weight = 0

\* No call of adjust_to_preferred_day on its own
NoSnap == [date |-> 0, preferred_days |-> <<>>, returned |-> FALSE, result |-> 0]

ConfigLocals0 ==
    /\ default_config = DEFAULT_CONFIG
    /\ loaded_config = NotLoaded
    /\ resolved = <<>>
    /\ snap = NoSnap

\* Calls that exercise validation, pool building and selection
Init ==
    /\ collection \in {NoneCollection, NoBottlesKey}
                       \cup {Collection(bs) : bs \in BottleLists(MaxBottles, {"Rum", "gin"}, BOOLEAN)}
    /\ start_date = 0
    /\ weeks \in -1..MaxWeeks
    /\ \E call \in ({ConfigOf(p) : p \in SelectionConfigs} \X {FileMissing})
                    \cup ({NoneConfig} \X {FileMissing, FileWith(PartialBiWeekly)}) :
           /\ config_data = call[1]
           /\ config_file = call[2]
    /\ Locals0
    /\ ConfigLocals0

\* Calls that exercise the date scheduler
InitDates ==
    /\ collection \in {Collection(bs) :
                          bs \in BottleLists(MaxDateBottles, {"Rum", "rum", "gin"}, {FALSE})}
    /\ start_date \in {0, 3}
    /\ weeks \in 0..MaxDateWeeks
    /\ config_data \in {ConfigOf(p) : p \in DateConfigs}
    /\ config_file = FileMissing
    /\ Locals0
    /\ ConfigLocals0

\* Configurations for the runs to completion: every day of the first 40 a
\* blackout date or none, with and without a preferred weekday, and a custom
\* interval of 0
LiveConfigs ==
    {[DefaultPreferences EXCEPT !.tasting_frequency = "custom",
                                !.custom_interval_days = n,
                                !.preferred_days = p,
                                !.avoid_dates = a] :
        n \in {0, 7}, p \in {<<>>, <<"Friday">>}, a \in {{}, DayRun(0, 1, 40)}}

\* Calls followed to their end
InitLive ==
    /\ collection \in {Collection(bs) :
                          bs \in BottleLists(MaxLiveBottles, {"rum"}, {FALSE})}
    /\ start_date = 0
    /\ weeks \in 0..MaxLiveWeeks
    /\ config_data \in {ConfigOf(p) : p \in LiveConfigs}
    /\ config_file = FileMissing
    /\ Locals0
    /\ ConfigLocals0

\* The preference resolver on its own, no schedule being generated
InitConfig ==
    /\ collection = NoneCollection
    /\ start_date = 0
    /\ weeks = 0
    /\ config_data = NoneConfig
    /\ config_file \in ConfigFiles
    /\ Locals0
    /\ ConfigLocals0

\* Lists of day names for adjust_to_preferred_day: empty, without a valid
\* name, in several spellings, in both orders, with a name twice
SnapOptions ==
    {<<>>, <<"Funday">>, <<"Friday">>, <<"saturday", "Monday">>,
     <<"Monday", "Saturday">>, <<"Funday", "SUNDAY">>,
     <<"WEDNESDAY", "Funday", "tuesday">>, <<"friday", "Friday">>}

\* Calls of adjust_to_preferred_day on its own
InitSnap ==
    /\ collection = NoneCollection
    /\ start_date = 0
    /\ weeks = 0
    /\ config_data = NoneConfig
    /\ config_file = FileMissing
    /\ Locals0
    /\ default_config = DEFAULT_CONFIG
    /\ loaded_config = NotLoaded
    /\ resolved = <<>>
    /\ snap \in {[date |-> d, preferred_days |-> p, returned |-> FALSE, result |-> 0] :
                    d \in 0..MaxSnapDate, p \in SnapOptions}

\* --------------------------------------------------------------- actions
Return(entries) ==
    /\ pc' = "returned"
    /\ schedule' = entries

Raise(exception) ==
    /\ pc' = "raised"
    /\ raised' = exception

\* Lines 205-211 without the test of weeks
InvalidArgumentsNoWeeks(coll, w) == coll.is_none \/ ~coll.has_bottles

\* Lines 205-211: not collection or 'bottles' not in collection; weeks <= 0
InvalidArguments(coll, w) == coll.is_none \/ ~coll.has_bottles \/ w <= 0

\* Lines 205-282: validation, the configuration, preferences, the weighted
\* pool, repeat fill or truncation
BuildPool ==
    /\ pc = "call"
    /\ IF InvalidArguments(collection, weeks)
       THEN /\ Return(<<>>)
            /\ UNCHANGED <<raised, total_tastings, all_bottles, config_data,
                           config_file>>
       ELSE LET config == IF IsNone(config_data)
                          THEN LoadConfigValue(default_config, config_file)
                          ELSE config_data
                bottles == collection.bottles
                total_bottles == Len(bottles)
                frequency_days == get_tasting_frequency_days(config)
                pool == WeightedPool(bottles, get_category_preferences(config))
                tastings == TotalTastings(weeks, frequency_days)
            IN  /\ config_data' = config
                /\ config_file' = IF IsNone(config_data)
                                  THEN FileAfterLoad(default_config, config_file)
                                  ELSE config_file
                /\ IF total_bottles = 0
                   THEN /\ Return(<<>>)
                        /\ UNCHANGED <<raised, total_tastings, all_bottles>>
                   ELSE IF frequency_days = 0
                   THEN /\ Raise("ZeroDivisionError")
                        /\ UNCHANGED <<schedule, total_tastings, all_bottles>>
                   ELSE /\ pc' = "choices"
                        /\ total_tastings' = tastings
                        /\ IF total_bottles <= tastings
                           THEN \E shuffled \in Shuffles(RepeatPool(pool)) :
                                    all_bottles' = RepeatFill(pool, shuffled,
                                                              tastings - total_bottles)
                           ELSE all_bottles' = Truncate(pool, tastings)
                        /\ UNCHANGED <<raised, schedule>>
    /\ UNCHANGED <<inputs, collection, selected_bottles, current_date,
                   last_category_date, week_num, attempts_log, default_config,
                   loaded_config, resolved, seasonal_weight, snap>>

\* Lines 285-290: random.choices over the pool
Choose ==
    /\ pc = "choices"
    /\ IF all_bottles = <<>>
       THEN /\ Raise("IndexError")
            /\ UNCHANGED selected_bottles
       ELSE IF SumWeights(all_bottles) <= 0
       THEN /\ Raise("ValueError")
            /\ UNCHANGED selected_bottles
       ELSE /\ pc' = "order"
            /\ selected_bottles' \in
                   ChoicesOutcomes(all_bottles, ChoicesK(total_tastings, all_bottles))
            /\ UNCHANGED raised
    /\ UNCHANGED <<inputs, collection, config_data, total_tastings, all_bottles,
                   current_date, last_category_date, week_num, schedule,
                   attempts_log, seasonal_weight, config_vars, snap>>

\* Lines 293-294 shuffling and sorting collection['bottles'] itself
InventoryAfterOrderInPlace(bottles, ordered) == ordered

\* Lines 293-294: the shuffle and the sort work in place on selected_bottles,
\* the list random.choices built, and leave collection['bottles'] as it was
InventoryAfterOrder(bottles, ordered) == bottles

\* Lines 293-300: shuffle, sort untasted first, initialise the date loop.  The
\* sort draws fresh random keys, so its possible results are the same for
\* every order the shuffle leaves.
Order ==
    /\ pc = "order"
    /\ selected_bottles' \in SortOutcomes(selected_bottles)
    /\ collection' = [collection EXCEPT
                          !.bottles = InventoryAfterOrder(@, selected_bottles')]
    /\ pc' = "dates"
    /\ schedule' = <<>>
    /\ current_date' = start_date
    /\ last_category_date' = EmptyMap
    /\ week_num' = 1
    /\ UNCHANGED <<inputs, config_data, raised, total_tastings, all_bottles,
                   attempts_log, seasonal_weight, config_vars, snap>>

\* AdjustedDate with the date put off by a day when the seasonal weight of the
\* category is below 1.0
AdjustedDateSeasonal(config, date, last, bottle) ==
    LET preferred_days == get_preferred_days(config)
        weight == get_seasonal_weight(CategoryKey(bottle), date,
                                      get_seasonal_adjustments(config))
        spaced == SpacedDate(IF weight < 10 THEN date + 1 ELSE date,
                             CategoryKey(bottle), last,
                             get_min_days_between_category(config))
    IN  AvoidLoop(SnappedDate(spaced, preferred_days), 0, preferred_days,
                  get_avoid_dates(config))

\* Lines 305-326: the date given to the bottle and the attempts the blackout
\* loop made, <<date, attempts>>.  The seasonal weight of line 306 takes no
\* part in it.
AdjustedDate(config, date, last, bottle) ==
    LET preferred_days == get_preferred_days(config)
        spaced == SpacedDate(date, CategoryKey(bottle), last,
                             get_min_days_between_category(config))
    IN  AvoidLoop(SnappedDate(spaced, preferred_days), 0, preferred_days,
                  get_avoid_dates(config))

\* Lines 331-343: what the iteration leaves, given the pair out of
\* AdjustedDate
LoopEffects(config, out, last, w, bottle) ==
    [entry |-> ScheduleRecord(w, out[1], bottle),
     attempts |-> out[2],
     last_category_date |-> SetLast(last, CategoryKey(bottle), out[1]),
     current_date |-> AdvanceDate(out[1], get_tasting_frequency_days(config)),
     week_num |-> NextWeekNum(w)]

\* Lines 302-343: one iteration of the loop over selected_bottles
ScheduleEntry ==
    /\ pc = "dates"
    /\ Len(schedule) < Len(selected_bottles)
    /\ LET bottle == selected_bottles[Len(schedule) + 1]
       IN  /\ seasonal_weight' =
                  get_seasonal_weight(CategoryKey(bottle), current_date,
                                      get_seasonal_adjustments(config_data))
           /\ \E out \in {AdjustedDate(config_data, current_date,
                                       last_category_date, bottle)} :
                  LET effects == LoopEffects(config_data, out, last_category_date,
                                             week_num, bottle)
                  IN  /\ schedule' = Append(schedule, effects.entry)
                      /\ attempts_log' = Append(attempts_log, effects.attempts)
                      /\ last_category_date' = effects.last_category_date
                      /\ current_date' = effects.current_date
                      /\ week_num' = effects.week_num
    /\ UNCHANGED <<inputs, collection, config_data, pc, raised, total_tastings,
                   all_bottles, selected_bottles, config_vars, snap>>

\* Line 345
ReturnSchedule ==
    /\ pc = "dates"
    /\ Len(schedule) = Len(selected_bottles)
    /\ pc' = "returned"
    /\ UNCHANGED <<inputs, collection, config_data, raised, total_tastings,
                   all_bottles, selected_bottles, current_date,
                   last_category_date, week_num, schedule, attempts_log,
                   seasonal_weight, config_vars, snap>>

Next == BuildPool \/ Choose \/ Order \/ ScheduleEntry \/ ReturnSchedule

Spec == Init /\ [][Next]_vars

SpecDates == InitDates /\ [][Next]_vars

\* generate_schedule runs in the caller's thread: a call that can take a step
\* takes it
SpecLive == InitLive /\ [][Next]_vars /\ WF_vars(Next)

\* config.py, load_config: lines 37-67
LoadConfig ==
    /\ loaded_config' = Loaded(default_config, config_file)
    /\ config_file' = FileAfterLoad(default_config, config_file)
    /\ UNCHANGED <<default_config, resolved, schedule_vars, snap>>

\* config.py, save_config: lines 70-89, called with a config of the caller's
\* or with the one load_config returned
SaveConfig ==
    /\ \E config \in ConfigContents
                     \cup (IF loaded_config.loaded
                           THEN {LoadedValue(loaded_config, default_config)}
                           ELSE {}) :
           config_file' = FileWith(config)
    /\ UNCHANGED <<default_config, loaded_config, resolved, schedule_vars, snap>>

\* config.py, get_tasting_frequency_days: lines 92-110, called with a config of
\* the caller's or with the one load_config returned
ResolveFrequency ==
    /\ \E config \in ConfigContents
                     \cup (IF loaded_config.loaded
                           THEN {LoadedValue(loaded_config, default_config)}
                           ELSE {}) :
           resolved' = <<config, get_tasting_frequency_days(config)>>
    /\ UNCHANGED <<config_file, default_config, loaded_config, schedule_vars, snap>>

\* Arguments of set_config_value after key_path.split('.'): <<section, key,
\* value>>.  tasting_frequency holds a string in DEFAULT_CONFIG, so lines
\* 357-389 leave the value the string it was given, also where the key is
\* absent.
SetConfigInputs ==
    {<<"user_preferences", "tasting_frequency", "monthly">>,
     <<"no_section", "key", "value">>}

\* The loaded dict after current[final_key] = value: a section that is the
\* dict of DEFAULT_CONFIG is written there, any other in the loaded dict
ConfigAfterSet(config, section, key, value) ==
    IF section \in config.shared THEN config
    ELSE [config EXCEPT !.sections[section] = DictUpdate(@, key :> value)]

\* DEFAULT_CONFIG after current[final_key] = value
DefaultsAfterSet(defaults, config, section, key, value) ==
    IF section \in config.shared
    THEN [defaults EXCEPT ![section] = DictUpdate(@, key :> value)]
    ELSE defaults

\* tasting_manager.py, set_config_value: lines 329-396.  config_data is a
\* local: nothing holds it after the return.
SetConfigValue ==
    /\ \E input \in SetConfigInputs :
           LET config == Loaded(default_config, config_file)
               section == input[1]
           IN  IF section \notin DOMAIN config.sections
               THEN /\ config_file' = FileAfterLoad(default_config, config_file)
                    /\ UNCHANGED default_config
               ELSE /\ default_config' =
                           DefaultsAfterSet(default_config, config, section,
                                            input[2], input[3])
                    /\ config_file' =
                           FileWith(LoadedValue(
                               ConfigAfterSet(config, section, input[2], input[3]),
                               default_config'))
    /\ UNCHANGED <<loaded_config, resolved, schedule_vars, snap>>

\* tasting_manager.py, reset_config: lines 399-411; confirmed is the answer
\* to the question asked when the file exists
ResetConfig ==
    /\ \E confirmed \in BOOLEAN :
           IF config_file.status # "missing" /\ ~confirmed
           THEN UNCHANGED config_file
           ELSE config_file' = FileWith(default_config)
    /\ UNCHANGED <<default_config, loaded_config, resolved, schedule_vars, snap>>

NextConfig ==
    LoadConfig \/ SaveConfig \/ ResolveFrequency \/ SetConfigValue \/ ResetConfig

SpecConfig == InitConfig /\ [][NextConfig]_vars

\* schedule_generator.py, adjust_to_preferred_day: lines 88-128
AdjustDate ==
    /\ ~snap.returned
    /\ snap' = [snap EXCEPT !.returned = TRUE,
                            !.result = adjust_to_preferred_day(snap.date,
                                                               snap.preferred_days)]
    /\ UNCHANGED <<schedule_vars, config_vars>>

NextSnap == AdjustDate

SpecSnap == InitSnap /\ [][NextSnap]_vars

\* ---------------------------------------------------------------- claims
Bottles == collection.bottles
FrequencyDays == get_tasting_frequency_days(config_data)
DefaultWeights == get_category_preferences(config_data) = EmptyMap
Entries == 1..Len(schedule)
EntryDay(i) == FromIsoFormat(schedule[i].date)
Occurrences(s, id) == Cardinality({i \in 1..Len(s) : s[i].id = id})
PoolOccurrences(id) == Cardinality({i \in 1..Len(all_bottles) : all_bottles[i][1].id = id})

\* C1: for a non-empty inventory and weeks > 0 (and a cadence of at least one
\* day), generate_schedule returns exactly floor(weeks*7/frequency_days) entries.
C1_HorizonExact ==
    (pc = "returned" /\ Len(Bottles) > 0 /\ weeks > 0 /\ FrequencyDays >= 1)
        => Len(schedule) = TotalTastings(weeks, FrequencyDays)

\* C2: no exception leaves generate_schedule, whatever the input.
C2_NoExceptionCrosses == pc # "raised"

\* C3: when the number of tastings is at least the inventory size (default
\* category weights), every bottle of the inventory is in some entry of the
\* returned schedule.
C3_AllBottlesScheduled ==
    (pc = "returned" /\ weeks > 0 /\ Len(Bottles) > 0 /\ DefaultWeights
        /\ FrequencyDays >= 1
        /\ TotalTastings(weeks, FrequencyDays) >= Len(Bottles))
        => \A b \in 1..Len(Bottles) :
               \E i \in Entries : schedule[i].bottle_id = Bottles[b].id

\* C4: selection is without replacement: a bottle is selected at most as many
\* times as it occurs in the candidate pool.
C4_WithoutReplacement ==
    pc \in {"order", "dates", "returned"}
        => \A b \in 1..Len(Bottles) :
               Occurrences(selected_bottles, Bottles[b].id)
                   <= PoolOccurrences(Bottles[b].id)

\* C5: when the inventory has an untasted bottle (default category weights),
\* one of the first two entries of a returned, non-empty schedule is an
\* untasted bottle.
C5_UntastedAmongFirstTwo ==
    (pc = "returned" /\ Len(schedule) > 0 /\ DefaultWeights
        /\ \E b \in 1..Len(Bottles) : ~Bottles[b].tasted)
        => \E i \in 1..Min(2, Len(schedule)) : ~schedule[i].is_repeat

\* C6: the week indices of the schedule are 1..len(schedule) in list order,
\* at every point of the run and whatever deferred the dates.
C6_WeeksContiguous == \A i \in Entries : schedule[i].week = i

\* A returned schedule of several entries whose dates were deferred by
\* spacing, by weekday snapping and by blackout avoidance
C6_Witness ==
    /\ pc = "returned"
    /\ Len(schedule) >= 2
    /\ get_min_days_between_category(config_data) > 0
    /\ get_preferred_days(config_data) # <<>>
    /\ \E i \in Entries : attempts_log[i] > 0
    /\ CategoryKey(selected_bottles[1]) = CategoryKey(selected_bottles[2])

\* C7: the formatted dates are non-decreasing along the schedule.
C7_DatesNonDecreasing ==
    \A i \in Entries : i < Len(schedule) => DateLeq(schedule[i].date, schedule[i + 1].date)

\* A returned schedule whose second entry was moved by blackout avoidance
\* into the month after the first entry's, with spacing and snapping active
C7_Witness ==
    /\ pc = "returned"
    /\ Len(schedule) >= 2
    /\ get_min_days_between_category(config_data) > 0
    /\ get_preferred_days(config_data) # <<>>
    /\ attempts_log[2] > 0
    /\ schedule[1].date[2] < schedule[2].date[2]

\* C8: with min_days_between_category = d > 0, two entries of one category
\* (compared lower-cased) are dated at least d days apart, unless the blackout
\* loop used all its attempts for one of them.
C8_CategorySpacing ==
    LET d == get_min_days_between_category(config_data)
    IN  d > 0 =>
            \A i, j \in Entries :
                (/\ i < j
                 /\ Lower(schedule[i].category) = Lower(schedule[j].category)
                 /\ attempts_log[i] < max_attempts
                 /\ attempts_log[j] < max_attempts)
                    => EntryDay(j) - EntryDay(i) >= d

\* Two entries whose categories differ only in case, the second deferred to
\* exactly d days after the first
C8_Witness ==
    /\ pc = "returned"
    /\ Len(schedule) >= 2
    /\ get_min_days_between_category(config_data) > FrequencyDays
    /\ schedule[1].category # schedule[2].category
    /\ Lower(schedule[1].category) = Lower(schedule[2].category)
    /\ attempts_log[1] < max_attempts /\ attempts_log[2] < max_attempts
    /\ EntryDay(2) - EntryDay(1) = get_min_days_between_category(config_data)

PreferredWeekdays ==
    LET p == get_preferred_days(config_data)
    IN  {day_map(Lower(p[i])) : i \in 1..Len(p)}

\* C9: with a non-empty list of valid preferred weekday names and no entry
\* moved by blackout avoidance, every entry is dated on a preferred weekday.
C9_PreferredDayConformance ==
    (/\ get_preferred_days(config_data) # <<>>
     /\ \A w \in PreferredWeekdays : w >= 0
     /\ \A i \in Entries : attempts_log[i] = 0)
        => \A i \in Entries : Weekday(EntryDay(i)) \in PreferredWeekdays

\* A returned schedule with two preferred weekdays, blackout dates configured
\* but never hit, whose entries fall on both preferred weekdays, the second
\* moved there by snapping
C9_Witness ==
    /\ pc = "returned"
    /\ Len(schedule) >= 2
    /\ Cardinality(PreferredWeekdays) = 2
    /\ \A w \in PreferredWeekdays : w >= 0
    /\ get_avoid_dates(config_data) # {}
    /\ \A i \in Entries : attempts_log[i] = 0
    /\ Weekday(EntryDay(1)) # Weekday(EntryDay(2))
    /\ EntryDay(2) - EntryDay(1)
           > Max(FrequencyDays, get_min_days_between_category(config_data))

\* C10: the blackout loop makes at most 30 attempts per entry; an entry is
\* dated on a blackout date only if all 30 attempts were used; without
\* preferred weekdays the days stepped over are blackout dates, one per
\* attempt; and every selected bottle is still given an entry.
C10_BlackoutAvoidance ==
    /\ \A i \in Entries :
        /\ attempts_log[i] <= max_attempts
        /\ schedule[i].date \in get_avoid_dates(config_data)
               => attempts_log[i] = max_attempts
        /\ get_preferred_days(config_data) = <<>>
               => \A n \in 1..attempts_log[i] :
                      Strftime(EntryDay(i) - n) \in get_avoid_dates(config_data)
    /\ pc = "returned" /\ raised = "none" => Len(schedule) = Len(selected_bottles)

\* An entry scheduled on a blackout date after the 30th attempt, in a
\* returned schedule
C10_Witness ==
    /\ pc = "returned"
    /\ \E i \in Entries :
           /\ schedule[i].date \in get_avoid_dates(config_data)
           /\ attempts_log[i] = max_attempts

\* C11: degenerate inputs (collection None, no 'bottles' key, empty bottle
\* list, weeks zero or negative) make generate_schedule return [] and raise
\* nothing.
C11_DegenerateEmpty ==
    (/\ pc # "call"
     /\ \/ collection.is_none
        \/ ~collection.has_bottles
        \/ Len(Bottles) = 0
        \/ weeks <= 0)
        => pc = "returned" /\ schedule = <<>> /\ raised = "none"

\* A call with bottles in the inventory and weeks <= 0 that has returned
C11_Witness ==
    /\ pc = "returned"
    /\ weeks <= 0
    /\ Len(Bottles) > 0
    /\ schedule = <<>>

\* C12: with no preferred weekdays, no blackout dates and no category
\* spacing, the k-th entry is dated start_date + (k-1)*frequency_days.
C12_PlainDates ==
    (/\ get_preferred_days(config_data) = <<>>
     /\ get_avoid_dates(config_data) = {}
     /\ get_min_days_between_category(config_data) = 0)
        => \A k \in Entries :
               schedule[k].date = Strftime(start_date + (k - 1) * FrequencyDays)

\* A returned plain schedule of two entries, a 6-day cadence, from 2024-01-04
C12_Witness ==
    /\ pc = "returned"
    /\ Len(schedule) = 2
    /\ get_preferred_days(config_data) = <<>>
    /\ get_avoid_dates(config_data) = {}
    /\ get_min_days_between_category(config_data) = 0
    /\ FrequencyDays = 6
    /\ schedule[1].date = <<2024, 1, 4>>
    /\ schedule[2].date = <<2024, 1, 10>>

\* C13: loading a file that holds only some user_preferences keys returns
\* user_preferences with the file's values for those keys and the default
\* value for every other default key.
C13_MissingKeysDefaulted ==
    [][(/\ LoadConfig
        /\ config_file.status = "ok"
        /\ "user_preferences" \in DOMAIN config_file.content)
           => LoadedValue(loaded_config', default_config').user_preferences
                  = DictUpdate(DefaultPreferences,
                               config_file.content.user_preferences)]_vars

\* C14: a custom cadence resolves to custom_interval_days of the same record,
\* and to 7 when that value is absent or not positive.
C14_CustomCadence ==
    (/\ Len(resolved) = 2
     /\ "tasting_frequency" \in DOMAIN UserPreferences(resolved[1])
     /\ UserPreferences(resolved[1]).tasting_frequency = "custom")
        => LET prefs == UserPreferences(resolved[1])
           IN  resolved[2] = IF "custom_interval_days" \in DOMAIN prefs
                                /\ prefs.custom_interval_days > 0
                             THEN prefs.custom_interval_days
                             ELSE 7

\* C15: weekly resolves to 7, bi-weekly to 14, monthly to 30, whatever
\* custom_interval_days is, and a missing cadence resolves to 7.
C15_NamedCadences ==
    Len(resolved) = 2
        => LET prefs == UserPreferences(resolved[1])
           IN  IF "tasting_frequency" \in DOMAIN prefs
               THEN /\ prefs.tasting_frequency = "weekly" => resolved[2] = 7
                    /\ prefs.tasting_frequency = "bi-weekly" => resolved[2] = 14
                    /\ prefs.tasting_frequency = "monthly" => resolved[2] = 30
               ELSE resolved[2] = 7

\* A monthly cadence resolved to 30 in a record whose custom_interval_days is 3
C15_Witness ==
    /\ Len(resolved) = 2
    /\ UserPreferences(resolved[1])
           = [tasting_frequency |-> "monthly", custom_interval_days |-> 3]
    /\ resolved[2] = 30

\* A configuration load_config has nothing to add to: it has every section
\* of DEFAULT_CONFIG
Resolved(config) == DOMAIN DEFAULT_CONFIG \subseteq DOMAIN config

\* C16: resolving is idempotent: what load_config returns is a resolved
\* configuration, merging it with the defaults again gives it back, and
\* loading a file that holds a resolved configuration returns that
\* configuration and leaves the file as it is.
C16_ResolveIdempotent ==
    [][LoadConfig =>
          LET result == LoadedValue(loaded_config', default_config')
          IN  /\ Resolved(result)
              /\ MergedConfig(default_config', result) = result
              /\ (config_file.status = "ok" /\ Resolved(config_file.content))
                     => /\ result = config_file.content
                        /\ config_file' = config_file]_vars

\* The file holds what an earlier load returned, other than the defaults, and
\* has been loaded again: no section of the result comes from DEFAULT_CONFIG
C16_Witness ==
    /\ loaded_config.loaded
    /\ loaded_config.shared = {}
    /\ config_file = FileWith(LoadedValue(loaded_config, default_config))
    /\ LoadedValue(loaded_config, default_config) # DEFAULT_CONFIG
    /\ LoadedValue(loaded_config, default_config).user_preferences
           = [tasting_frequency |-> "bi-weekly"]

\* C17: no step of generate_schedule changes the inventory: same bottles,
\* same order, same field values.
C17_InventoryUnchanged == [][collection' = collection]_vars

\* A returned schedule built with repeat fill whose first entry is not the
\* first bottle of the inventory
C17_Witness ==
    /\ pc = "returned"
    /\ Len(schedule) >= 2
    /\ Len(all_bottles) > Len(Bottles)
    /\ schedule[1].bottle_id # Bottles[1].id

\* C18 as stated: no step of generate_schedule, with or without a config_data
\* argument, changes config.json.
C18_NoFileIO == [][config_file' = config_file]_vars

\* C18, amended: with a config_data argument generate_schedule leaves
\* config.json alone; with None, and valid arguments, it loads the
\* configuration: config.json is read, and is created with the defaults when
\* it is missing.
C18_FileIOOnlyWithoutConfig ==
    [][IF IsNone(config_data) /\ ~InvalidArguments(collection, weeks) /\ pc = "call"
       THEN /\ config_file.status = "missing"
                => /\ config_file' = [status |-> "ok", content |-> default_config]
                   /\ config_data' = default_config
            /\ config_file.status = "ok"
                => /\ config_file' = config_file
                   /\ UserPreferences(config_data')
                          = UserPreferences(config_file.content)
       ELSE config_file' = config_file]_vars

\* A schedule returned by a call without config_data that found no
\* config.json: the file now holds the defaults
C18_Witness ==
    /\ pc = "returned"
    /\ Len(schedule) > 0
    /\ config_data = DEFAULT_CONFIG
    /\ config_file = FileWith(DEFAULT_CONFIG)

\* C19: every entry refers to a bottle of the inventory and its is_repeat is
\* that bottle's tasted flag, for every occurrence.
C19_EntriesReferInventory ==
    \A i \in Entries :
        \E b \in 1..Len(Bottles) :
            /\ Bottles[b].id = schedule[i].bottle_id
            /\ schedule[i].is_repeat = Bottles[b].tasted

\* A returned schedule built with repeat fill, one bottle scheduled twice,
\* with a repeat and a first tasting among its entries
C19_Witness ==
    /\ pc = "returned"
    /\ Len(all_bottles) > Len(Bottles)
    /\ \E i, j \in Entries : i < j /\ schedule[i].bottle_id = schedule[j].bottle_id
    /\ \E i \in Entries : schedule[i].is_repeat
    /\ \E i \in Entries : ~schedule[i].is_repeat

\* C20: when the inventory size is at most the number of tastings, repeat
\* fill brings the pool to exactly that number of candidates, the added ones
\* tasted bottles when the inventory has any.
C20_RepeatFillExact ==
    (/\ pc # "call"
     /\ Len(Bottles) > 0
     /\ Len(Bottles) <= total_tastings)
        => /\ Len(all_bottles) = total_tastings
           /\ (\E b \in 1..Len(Bottles) : Bottles[b].tasted)
                  => \A i \in (Len(Bottles) + 1)..Len(all_bottles) :
                         all_bottles[i][1].tasted

\* The bottles of the candidate pool, in pool order
Candidates == [i \in 1..Len(all_bottles) |-> all_bottles[i][1]]

\* C21: when the inventory is larger than the number of tastings need >= 1,
\* the candidates are the first need untasted bottles in inventory order, or
\* all untasted bottles followed by the first tasted ones up to need; only
\* these bottles are selected and scheduled.
C21_Truncation ==
    (pc # "call" /\ total_tastings >= 1 /\ Len(Bottles) > total_tastings)
        => LET untasted == SelectSeq(Bottles, IsUntasted)
               tasted == SelectSeq(Bottles, IsTasted)
               expected ==
                   IF Len(untasted) >= total_tastings
                   THEN SubSeq(untasted, 1, total_tastings)
                   ELSE untasted \o SubSeq(tasted, 1, total_tastings - Len(untasted))
           IN  /\ Candidates = expected
               /\ \A i \in 1..Len(selected_bottles) :
                      \E j \in 1..Len(expected) : selected_bottles[i] = expected[j]
               /\ \A i \in Entries :
                      \E j \in 1..Len(expected) : schedule[i].bottle_id = expected[j].id

\* Three bottles for two tastings, the only untasted bottle last in the
\* inventory, a tasted bottle in the returned schedule
C21_Witness ==
    /\ pc = "returned"
    /\ Len(Bottles) = 3
    /\ total_tastings = 2
    /\ Bottles[1].tasted /\ Bottles[2].tasted /\ ~Bottles[3].tasted
    /\ Candidates = <<Bottles[3], Bottles[1]>>
    /\ \E i \in Entries : schedule[i].bottle_id = 1

\* C22: in every schedule no entry with is_repeat precedes an entry without
\* it, and the entries follow the order of the selected list.
C22_UntastedFirst ==
    /\ \A i, j \in Entries :
           i < j => ~(schedule[i].is_repeat /\ ~schedule[j].is_repeat)
    /\ \A i \in Entries : schedule[i].bottle_id = selected_bottles[i].id

\* A returned schedule of three entries, first tastings and repeats
C22_Witness ==
    /\ pc = "returned"
    /\ Len(schedule) = 3
    /\ ~schedule[1].is_repeat
    /\ schedule[3].is_repeat

\* C24: the weight of a candidate is the configured weight of its lower-cased
\* category, 1 without one, times 2 for an untasted bottle.
C24_Weights ==
    \A i \in 1..Len(all_bottles) :
        LET bottle == all_bottles[i][1]
            prefs == get_category_preferences(config_data)
            category_weight == IF Lower(bottle.category) \in DOMAIN prefs
                               THEN prefs[Lower(bottle.category)]
                               ELSE 1
        IN  all_bottles[i][2] = category_weight * (IF bottle.tasted THEN 1 ELSE 2)

\* A pool with an untasted gin of weight 3 * 2 and a tasted "Rum" of weight 1
C24_Witness ==
    /\ pc = "choices"
    /\ get_category_preferences(config_data) = ("gin" :> 3)
    /\ \E i, j \in 1..Len(all_bottles) :
           /\ all_bottles[i][1].category = "gin" /\ ~all_bottles[i][1].tasted
           /\ all_bottles[i][2] = 6
           /\ all_bottles[j][1].category = "Rum" /\ all_bottles[j][1].tasted
           /\ all_bottles[j][2] = 1

\* C27: when the inventory has at least total_tastings >= 1 untasted bottles,
\* every entry is a first tasting, whatever the category weights.
C27_OnlyUntasted ==
    (/\ total_tastings >= 1
     /\ Len(SelectSeq(Bottles, IsUntasted)) >= total_tastings)
        => \A i \in Entries : ~schedule[i].is_repeat

\* Two untasted bottles and a tasted one for two tastings, with a configured
\* category weight: a returned schedule of two first tastings
C27_Witness ==
    /\ pc = "returned"
    /\ Len(schedule) = 2
    /\ total_tastings = 2
    /\ Len(SelectSeq(Bottles, IsUntasted)) = 2
    /\ Len(SelectSeq(Bottles, IsTasted)) = 1
    /\ get_category_preferences(config_data) # EmptyMap
    /\ \A i \in Entries : ~schedule[i].is_repeat

\* C28: for frequency_days >= 1, each entry is dated at least frequency_days
\* after the entry before it, whatever the spacing, weekday and blackout
\* settings.
C28_FrequencyGap ==
    FrequencyDays >= 1
        => \A i \in Entries :
               i < Len(schedule) => EntryDay(i + 1) - EntryDay(i) >= FrequencyDays

\* Two entries exactly frequency_days apart, both snapped to a preferred
\* weekday, with blackout dates and category spacing configured
C28_Witness ==
    /\ pc = "returned"
    /\ Len(schedule) = 2
    /\ get_preferred_days(config_data) # <<>>
    /\ get_avoid_dates(config_data) # {}
    /\ get_min_days_between_category(config_data) > 0
    /\ EntryDay(1) # start_date
    /\ EntryDay(2) - EntryDay(1) = FrequencyDays

ValidPreferredWeekdays == {w \in PreferredWeekdays : w >= 0}

\* C29: when the preferred list has a valid weekday name, every entry is
\* dated on a preferred weekday, also when blackout avoidance moved it and
\* when the 30 attempts were used.
C29_PreferredDayAlways ==
    ValidPreferredWeekdays # {}
        => \A i \in Entries : Weekday(EntryDay(i)) \in ValidPreferredWeekdays

\* An entry moved by blackout avoidance through all 30 attempts, dated on a
\* preferred weekday that is a blackout date
C29_Witness ==
    /\ pc = "returned"
    /\ ValidPreferredWeekdays # {}
    /\ \E i \in Entries :
           /\ attempts_log[i] = max_attempts
           /\ Weekday(EntryDay(i)) \in ValidPreferredWeekdays
           /\ schedule[i].date \in get_avoid_dates(config_data)

\* The weekday a name stands for in any spelling, -1 when it is no weekday
SpelledWeekday(name) ==
    CASE name \in {"monday", "Monday", "MONDAY"} -> 0
      [] name \in {"tuesday", "Tuesday", "TUESDAY"} -> 1
      [] name \in {"wednesday", "Wednesday", "WEDNESDAY"} -> 2
      [] name \in {"thursday", "Thursday", "THURSDAY"} -> 3
      [] name \in {"friday", "Friday", "FRIDAY"} -> 4
      [] name \in {"saturday", "Saturday", "SATURDAY"} -> 5
      [] name \in {"sunday", "Sunday", "SUNDAY"} -> 6
      [] OTHER -> -1

\* The weekdays validly named in the list of the call
SnapWeekdays ==
    {SpelledWeekday(snap.preferred_days[i]) : i \in 1..Len(snap.preferred_days)}
        \ {-1}

\* C23: adjust_to_preferred_day returns date + m, m the smallest of 0..6 with
\* the weekday of date + m validly named in the list, in any spelling; it
\* returns the date itself when the date is on a preferred weekday, when the
\* list is empty and when no name of the list is a weekday.
C23_NearestForward ==
    snap.returned =>
        IF SnapWeekdays = {}
        THEN snap.result = snap.date
        ELSE \E m \in 0..6 :
                 /\ snap.result = snap.date + m
                 /\ Weekday(snap.date + m) \in SnapWeekdays
                 /\ \A k \in 0..(m - 1) : Weekday(snap.date + k) \notin SnapWeekdays

\* Thursday 2024-01-04 with saturday before Monday: moved 2 days to the
\* Saturday, not 4 to the Monday
C23_Witness ==
    /\ snap.returned
    /\ snap.date = 3
    /\ snap.preferred_days = <<"saturday", "Monday">>
    /\ snap.result = 5

\* C25: every call of generate_schedule ends, by a return or an exception;
\* the blackout loop makes at most 30 iterations for an entry, also when
\* every date is a blackout date, and at most total_tastings bottles are
\* processed.
C25_Terminates ==
    /\ <>(pc \in {"returned", "raised"})
    /\ [](/\ \A i \in Entries : attempts_log[i] <= max_attempts
          /\ Len(selected_bottles) <= Max(total_tastings, 0)
          /\ Len(schedule) <= Len(selected_bottles))

\* A call that returned two entries although each of the 40 days from the
\* start date on is a blackout date: the first entry used all 30 attempts
C25_Witness ==
    /\ pc = "returned"
    /\ Len(schedule) = 2
    /\ get_avoid_dates(config_data) = DayRun(0, 1, 40)
    /\ get_preferred_days(config_data) = <<>>
    /\ attempts_log[1] = max_attempts
    /\ schedule[1].date \in get_avoid_dates(config_data)

\* The configuration with seasonal_adjustments set to flag
SetSeasonal(config, flag) ==
    [section \in DOMAIN config \cup {"user_preferences"} |->
        IF section = "user_preferences"
        THEN DictUpdate(UserPreferences(config), "seasonal_adjustments" :> flag)
        ELSE config[section]]

\* C26: the seasonal flag has no effect on the schedule: the preferences the
\* selection reads are the same with the flag on and off, and every
\* iteration of the date loop appends the entry, and leaves the loop
\* variables, that it would with the flag on and with the flag off.
C26_SeasonalNoOp ==
    [][/\ \A flag \in BOOLEAN :
              LET config == SetSeasonal(config_data, flag)
              IN  /\ get_tasting_frequency_days(config) = FrequencyDays
                  /\ get_category_preferences(config)
                         = get_category_preferences(config_data)
       /\ (pc = "dates" /\ Len(schedule') = Len(schedule) + 1)
              => \A flag \in BOOLEAN :
                     LET config == SetSeasonal(config_data, flag)
                         bottle == selected_bottles[Len(schedule) + 1]
                         out == AdjustedDate(config, current_date,
                                             last_category_date, bottle)
                         effects == LoopEffects(config, out, last_category_date,
                                                week_num, bottle)
                     IN  /\ schedule' = Append(schedule, effects.entry)
                         /\ attempts_log' = Append(attempts_log, effects.attempts)
                         /\ last_category_date' = effects.last_category_date
                         /\ current_date' = effects.current_date
                         /\ week_num' = effects.week_num
                         /\ selected_bottles' = selected_bottles]_vars

\* A returned schedule of the plain weekly dates with the flag on, the
\* seasonal weight of the last bottle computed as 0.7
C26_Witness ==
    /\ pc = "returned"
    /\ get_seasonal_adjustments(config_data)
    /\ Len(schedule) = 2
    /\ seasonal_weight = 7
    /\ schedule[1].date = <<2024, 1, 1>>
    /\ schedule[2].date = <<2024, 1, 8>>

\* C30: DEFAULT_CONFIG holds the factory values after any sequence of
\* load_config, set_config_value and reset_config calls in one process, so a
\* load_config of a missing file and reset_config yield the factory defaults.
C30_DefaultsIntact == default_config = DEFAULT_CONFIG

====
